---------------------------- MODULE Spec2Model ----------------------------
(* Motus-Bot (src/main.js): the constraint state kept across attempts,      *)
(* the updater that folds a feedback row into it, the candidate selector,   *)
(* and the attempt loop of startGame with its persistent word stores.       *)
(*                                                                          *)
(* A letter is a one-character string, a word a sequence of letters.        *)
(* Positions are 0-based as in the source: the letter of word w at          *)
(* position i is w[i + 1].                                                  *)
EXTENDS Naturals, Integers, Sequences, FiniteSets, TLC

VARIABLES
    pc,            \* position of startGame: "Guessing", "FeedbackPending", or a terminal
    wordPool,      \* wordPool, the in-memory corpus (an array)
    invalidStore,  \* localStorage[INVALID_WORDS_KEY], as the stored array
    validStore,    \* localStorage[VALID_WORDS_KEY], as the stored array
    validAnswers,  \* validAnswers, the history of accepted words
    gameState,     \* gameState: wellPlaced, misplaced, absent, excludedPositions
    attempt,       \* attempt
    word,          \* word, the word last chosen for submission
    grid,          \* the board's filled rows, each a getRowData result
    solution,      \* the board's hidden word
    maxAttempts,   \* getMaxAttempts()
    lettersCount,  \* getNumberOfLetters()
    rejected,      \* history variable: the words the board rejected this session
    initialState   \* history variable: what initializeGameStateFromGrid returned (sessions)

vars == << pc, wordPool, invalidStore, validStore, validAnswers, gameState,
           attempt, word, grid, solution, maxAttempts, lettersCount, rejected, initialState >>

-----------------------------------------------------------------------------
(* Bounds of the model *)

\* the letters of the modelled alphabet
Alphabet == {"a", "b"}

\* the board widths explored (getNumberOfLetters)
BoardWidths == {2}

\* the largest number of rows of the board (getMaxAttempts)
MaxAttempts == 2

\* the largest number of lines of the downloaded word list
MaxRaw == 2

\* the largest number of feedback rows applied in the updater specification
MaxUpdates == 2

\* the longest excludedPositions list the session explores
MaxExcluded == 4

-----------------------------------------------------------------------------
(* Arrays *)

\* null, and the empty string: both are falsy where the source tests a word
Null == << >>

\* Array.prototype.includes
Includes(arr, x) == \E k \in DOMAIN arr : arr[k] = x

\* Array.prototype.indexOf, 0-based, -1 when absent
IndexOf(arr, x) ==
    IF Includes(arr, x)
    THEN (CHOOSE k \in DOMAIN arr :
             arr[k] = x /\ \A j \in DOMAIN arr : arr[j] = x => k <= j) - 1
    ELSE -1

\* arr.splice(start, 1): a negative start counts from the end of the array
Splice1(arr, start) ==
    LET from == IF start < 0
                THEN (IF Len(arr) + start < 0 THEN 0 ELSE Len(arr) + start)
                ELSE (IF start > Len(arr) THEN Len(arr) ELSE start)
    IN  IF from >= Len(arr)
        THEN arr
        ELSE SubSeq(arr, 1, from) \o SubSeq(arr, from + 2, Len(arr))

\* Array.from(new Set(arr)): first occurrences, in order
RECURSIVE UniqueFrom(_, _, _)
UniqueFrom(arr, k, acc) ==
    IF k > Len(arr) THEN acc
    ELSE UniqueFrom(arr, k + 1,
                    IF Includes(acc, arr[k]) THEN acc ELSE Append(acc, arr[k]))

Unique(arr) == UniqueFrom(arr, 1, << >>)

\* Object.values(obj)
Values(obj) == { obj[k] : k \in DOMAIN obj }

\* obj[key] = value
Put(obj, key, value) ==
    [ k \in (DOMAIN obj) \cup {key} |-> IF k = key THEN value ELSE obj[k] ]

-----------------------------------------------------------------------------
(* Persistent stores *)

\* saveInvalidWords / saveValidWords: the array stored is deduplicated
saveWords(words) == Unique(words)

addInvalidWord_NoSave(store, w) == store

\* addInvalidWord(word) on the stored array
addInvalidWord(store, w) ==
    IF ~Includes(store, w) THEN saveWords(Append(store, w)) ELSE store

addValidWord_Never(store, w) == store

\* addValidWord(word) on the stored array
addValidWord(store, w) ==
    IF ~Includes(store, w) /\ w # Null THEN saveWords(Append(store, w)) ELSE store

-----------------------------------------------------------------------------
(* Constraint state *)

\* the cell texts the first row of a fresh board can show
EmptyCells == {"", "."}

\* initializeGameStateFromGrid, from the texts of the first row's cells
initializeGameStateFromGrid(firstRow) ==
    [ wellPlaced |->
          [ i \in { j \in 0 .. (Len(firstRow) - 1) : firstRow[j + 1] \notin EmptyCells }
              |-> firstRow[i + 1] ],
      misplaced |-> {},
      absent |-> {},
      excludedPositions |-> [ l \in {} |-> << >> ] ]

ApplyEntry_KeepAbsent(gs, e, i) ==
    LET l == e.letter IN
    CASE e.status = "wellPlaced" ->
            [gs EXCEPT !.wellPlaced = Put(@, i, l)]
      [] e.status = "misplaced" ->
            [gs EXCEPT !.misplaced = @ \cup {l},
                       !.excludedPositions =
                           Put(@, l, Append(IF l \in DOMAIN @ THEN @[l] ELSE << >>, i))]
      [] e.status = "absent" ->
            IF l \in Values(gs.wellPlaced) \/ l \in gs.misplaced
            THEN gs
            ELSE [gs EXCEPT !.absent = @ \cup {l}]
      [] OTHER -> gs

ApplyEntry_NoGuard(gs, e, i) ==
    LET l == e.letter IN
    CASE e.status = "wellPlaced" ->
            [gs EXCEPT !.wellPlaced = Put(@, i, l), !.absent = @ \ {l}]
      [] e.status = "misplaced" ->
            [gs EXCEPT !.misplaced = @ \cup {l},
                       !.absent = @ \ {l},
                       !.excludedPositions =
                           Put(@, l, Append(IF l \in DOMAIN @ THEN @[l] ELSE << >>, i))]
      [] e.status = "absent" -> [gs EXCEPT !.absent = @ \cup {l}]
      [] OTHER -> gs

ApplyEntry_ResetExcluded(gs, e, i) ==
    LET l == e.letter IN
    CASE e.status = "wellPlaced" ->
            [gs EXCEPT !.wellPlaced = Put(@, i, l), !.absent = @ \ {l}]
      [] e.status = "misplaced" ->
            [gs EXCEPT !.misplaced = @ \cup {l},
                       !.absent = @ \ {l},
                       !.excludedPositions = Put(@, l, << i >>)]
      [] e.status = "absent" ->
            IF l \in Values(gs.wellPlaced) \/ l \in gs.misplaced
            THEN gs
            ELSE [gs EXCEPT !.absent = @ \cup {l}]
      [] OTHER -> gs

ApplyEntry_AbsentClears(gs, e, i) ==
    LET l == e.letter IN
    CASE e.status = "wellPlaced" ->
            [gs EXCEPT !.wellPlaced = Put(@, i, l), !.absent = @ \ {l}]
      [] e.status = "misplaced" ->
            [gs EXCEPT !.misplaced = @ \cup {l},
                       !.absent = @ \ {l},
                       !.excludedPositions =
                           Put(@, l, Append(IF l \in DOMAIN @ THEN @[l] ELSE << >>, i))]
      [] e.status = "absent" ->
            [gs EXCEPT !.wellPlaced =
                           [ p \in { q \in DOMAIN gs.wellPlaced : gs.wellPlaced[q] # l }
                               |-> gs.wellPlaced[p] ],
                       !.absent = @ \cup {l}]
      [] OTHER -> gs

ApplyEntry_WellPlacedPushes(gs, e, i) ==
    LET l == e.letter IN
    CASE e.status = "wellPlaced" ->
            [gs EXCEPT !.wellPlaced = Put(@, i, l),
                       !.absent = @ \ {l},
                       !.excludedPositions =
                           Put(@, l, Append(IF l \in DOMAIN @ THEN @[l] ELSE << >>, i))]
      [] e.status = "misplaced" ->
            [gs EXCEPT !.misplaced = @ \cup {l},
                       !.absent = @ \ {l},
                       !.excludedPositions =
                           Put(@, l, Append(IF l \in DOMAIN @ THEN @[l] ELSE << >>, i))]
      [] e.status = "absent" ->
            IF l \in Values(gs.wellPlaced) \/ l \in gs.misplaced
            THEN gs
            ELSE [gs EXCEPT !.absent = @ \cup {l}]
      [] OTHER -> gs

\* one iteration of updateGameState's forEach: the switch on the status of
\* entry e at position i (a status outside the three cases falls through)
ApplyEntry(gs, e, i) ==
    LET l == e.letter IN
    CASE e.status = "wellPlaced" ->
            [gs EXCEPT !.wellPlaced = Put(@, i, l), !.absent = @ \ {l}]
      [] e.status = "misplaced" ->
            [gs EXCEPT !.misplaced = @ \cup {l},
                       !.absent = @ \ {l},
                       !.excludedPositions =
                           Put(@, l, Append(IF l \in DOMAIN @ THEN @[l] ELSE << >>, i))]
      [] e.status = "absent" ->
            IF l \in Values(gs.wellPlaced) \/ l \in gs.misplaced
            THEN gs
            ELSE [gs EXCEPT !.absent = @ \cup {l}]
      [] OTHER -> gs

RECURSIVE ApplyFrom(_, _, _)
ApplyFrom(gs, rowData, k) ==
    IF k > Len(rowData) THEN gs
    ELSE ApplyFrom(ApplyEntry(gs, rowData[k], k - 1), rowData, k + 1)

\* updateGameState(gameState, rowData): the entries in array order
updateGameState(gs, rowData) == ApplyFrom(gs, rowData, 1)

-----------------------------------------------------------------------------
(* Candidate selection *)

\* letters[i] of word.split(""): undefined (no letter) past the end
LetterAt(w, i) == IF (i + 1) \in DOMAIN w THEN w[i + 1] ELSE "undefined"

Matches_NoHistory(w, gs, answers) ==
    /\ \A i \in DOMAIN gs.wellPlaced : LetterAt(w, i) = gs.wellPlaced[i]
    /\ \A l \in gs.misplaced :
          /\ Includes(w, l)
          /\ LET excluded == IF l \in DOMAIN gs.excludedPositions
                             THEN gs.excludedPositions[l] ELSE << >>
             IN  ~ \E k \in DOMAIN excluded : LetterAt(w, excluded[k]) = l
    /\ \A l \in gs.absent : ~Includes(w, l)

\* the predicate findNextCandidate hands to wordList.find
Matches(w, gs, answers) ==
    /\ \A i \in DOMAIN gs.wellPlaced : LetterAt(w, i) = gs.wellPlaced[i]
    /\ \A l \in gs.misplaced :
          /\ Includes(w, l)
          /\ LET excluded == IF l \in DOMAIN gs.excludedPositions
                             THEN gs.excludedPositions[l] ELSE << >>
             IN  ~ \E k \in DOMAIN excluded : LetterAt(w, excluded[k]) = l
    /\ \A l \in gs.absent : ~Includes(w, l)
    /\ ~Includes(answers, w)

\* Array.prototype.find from index k on: the first element that matches
RECURSIVE FindFrom(_, _, _, _)
FindFrom(wordList, gs, answers, k) ==
    IF k > Len(wordList) THEN Null
    ELSE IF Matches(wordList[k], gs, answers) THEN wordList[k]
    ELSE FindFrom(wordList, gs, answers, k + 1)

RECURSIVE FindLastFrom(_, _, _, _)
FindLastFrom(wordList, gs, answers, k) ==
    IF k < 1 THEN Null
    ELSE IF Matches(wordList[k], gs, answers) THEN wordList[k]
    ELSE FindLastFrom(wordList, gs, answers, k - 1)

findNextCandidate_Last(wordList, gs, answers) ==
    FindLastFrom(wordList, gs, answers, Len(wordList))

\* findNextCandidate(wordList, gameState, validAnswers): find(...) || null
findNextCandidate(wordList, gs, answers) == FindFrom(wordList, gs, answers, 1)

-----------------------------------------------------------------------------
(* Word corpus *)

\* the characters /^[a-z]+$/ accepts
LowerLetters ==
    { "a", "b", "c", "d", "e", "f", "g", "h", "i", "j", "k", "l", "m",
      "n", "o", "p", "q", "r", "s", "t", "u", "v", "w", "x", "y", "z" }

\* String.prototype.trim on a sequence of characters
RECURSIVE TrimLeft(_)
TrimLeft(w) == IF w # << >> /\ Head(w) = " " THEN TrimLeft(Tail(w)) ELSE w

RECURSIVE TrimRight(_)
TrimRight(w) ==
    IF w # << >> /\ w[Len(w)] = " " THEN TrimRight(SubSeq(w, 1, Len(w) - 1)) ELSE w

\* one character through toLowerCase, NFD without combining marks, and the
\* ligature replacements: the letters it becomes ("a_grave" stands for the
\* accented letter, "oe_ligature" and "ae_ligature" for the ligatures)
NormalizeChar(c) ==
    CASE c = "A" -> << "a" >>
      [] c = "B" -> << "b" >>
      [] c = "a_grave" -> << "a" >>
      [] c = "oe_ligature" -> << "o", "e" >>
      [] c = "ae_ligature" -> << "a", "e" >>
      [] OTHER -> << c >>

RECURSIVE NormalizeFrom(_, _)
NormalizeFrom(w, k) ==
    IF k > Len(w) THEN << >> ELSE NormalizeChar(w[k]) \o NormalizeFrom(w, k + 1)

\* the map callback of fetchFrenchWordList
NormalizeWord(w) == NormalizeFrom(TrimRight(TrimLeft(w)), 1)

\* the filter callback of fetchFrenchWordList: w && /^[a-z]+$/.test(w)
IsPlainWord(w) == w # << >> /\ \A k \in DOMAIN w : w[k] \in LowerLetters

\* fetchFrenchWordList: the stored valid words, then the lines of the
\* downloaded text, normalized, filtered and deduplicated
fetchFrenchWordList(textLines, validWords) ==
    LET raw == validWords \o textLines
        mapped == [ k \in DOMAIN raw |-> NormalizeWord(raw[k]) ]
    IN  Unique(SelectSeq(mapped, IsPlainWord))

BuildPool_NoBlocklist(allWords, count, invalidWords) ==
    SelectSeq(allWords, LAMBDA w : Len(w) = count)

\* startGame's wordPool: the words of the board's length not in the blocklist
BuildPool(allWords, count, invalidWords) ==
    SelectSeq(SelectSeq(allWords, LAMBDA w : Len(w) = count),
              LAMBDA w : ~Includes(invalidWords, w))

-----------------------------------------------------------------------------
(* The board, as the page shows it *)

\* the words of n letters
Words(n) == [ 1 .. n -> Alphabet ]

\* the status the board gives the letter at 1-based place k of an accepted
\* guess: green where it matches, orange while the hidden word has
\* occurrences of the letter left over, none otherwise
CellStatus(guess, sol, k) ==
    LET l == guess[k]
        available == Cardinality({ j \in DOMAIN sol : sol[j] = l /\ guess[j] # l })
        earlier == Cardinality({ j \in 1 .. (k - 1) : guess[j] = l /\ sol[j] # l })
    IN  IF sol[k] = l THEN "wellPlaced"
        ELSE IF earlier < available THEN "misplaced"
        ELSE "absent"

\* getRowData of the row the board fills for an accepted guess
getRowData(guess, sol) ==
    [ k \in DOMAIN guess |-> [ letter |-> guess[k], status |-> CellStatus(guess, sol, k) ] ]

\* the texts of the first row of a fresh board: the revealed letters, "." elsewhere
FirstRowTexts(sol, revealed) ==
    [ k \in DOMAIN sol |-> IF (k - 1) \in revealed THEN sol[k] ELSE "." ]

\* isGameWon(): the board shows success once a row is all green
isGameWon(rows) ==
    /\ rows # << >>
    /\ \A k \in DOMAIN rows[Len(rows)] : rows[Len(rows)][k].status = "wellPlaced"

\* isGameLost(): the board shows failure once every row is used without success
isGameLost(rows, max) == Len(rows) >= max /\ ~isGameWon(rows)

-----------------------------------------------------------------------------
(* The attempt loop of startGame *)

Terminal == {"Won", "Lost", "Exhausted"}

\* the raw lines a word list may hold: the words of the board's length, a
\* shorter and a longer one, a line the normalization changes (a leading
\* blank, upper case, an accent) and a line the filter drops (a hyphen)
RawEntries(n) ==
    Words(n) \cup
        { [ k \in 1 .. (n - 1) |-> "a" ],
          [ k \in 1 .. (n + 1) |-> "b" ],
          << " " >> \o [ k \in 1 .. n |-> IF k = 1 THEN "A" ELSE "a_grave" ],
          [ k \in 1 .. n |-> IF k = 1 THEN "a" ELSE "-" ] }

RawLists(n) == UNION { [ 1 .. k -> RawEntries(n) ] : k \in 0 .. MaxRaw }

\* what a store may hold when the session starts
Stores(n) == { << >> } \cup { << w >> : w \in Words(n) }

Init ==
    \E n \in BoardWidths :
    \E text \in RawLists(n), vs \in Stores(n), is \in Stores(n) :
    \E sol \in Words(n), m \in 1 .. MaxAttempts, revealed \in SUBSET (0 .. (n - 1)) :
        /\ pc = "Guessing"
        /\ lettersCount = n
        /\ maxAttempts = m
        /\ solution = sol
        /\ validStore = vs
        /\ invalidStore = is
        /\ wordPool = BuildPool(fetchFrenchWordList(text, vs), n, is)
        /\ validAnswers = << >>
        /\ gameState = initializeGameStateFromGrid(FirstRowTexts(sol, revealed))
        /\ attempt = 0
        /\ word = Null
        /\ grid = << >>
        /\ rejected = {}
        /\ initialState = gameState

GuessState_FirstRow ==
    IF attempt > 0 THEN updateGameState(gameState, grid[1]) ELSE gameState

\* lines 312-316: the previous row is read and folded in from the second attempt on
GuessState ==
    IF attempt > 0 THEN updateGameState(gameState, grid[attempt]) ELSE gameState

\* the exploration stops where an excludedPositions list would pass MaxExcluded
WithinExcluded(gs) ==
    \A l \in DOMAIN gs.excludedPositions : Len(gs.excludedPositions[l]) <= MaxExcluded

Truncated == pc = "Guessing" /\ ~WithinExcluded(GuessState)

AfterLoop_Always(store, rows, max, sol) == addValidWord(store, sol)

AfterLoop_Never(store, rows, max, sol) == store

\* lines 351-355: the solution is stored when the board shows the game lost
AfterLoop(store, rows, max, sol) ==
    IF isGameLost(rows, max) THEN addValidWord(store, sol) ELSE store

\* lines 318, 330: the selector finds a word, which is typed
GuessCandidate ==
    /\ pc = "Guessing"
    /\ attempt < maxAttempts
    /\ WithinExcluded(GuessState)
    /\ LET cand == findNextCandidate(wordPool, GuessState, validAnswers) IN
        /\ cand # Null
        /\ word' = cand
    /\ gameState' = GuessState
    /\ pc' = "FeedbackPending"
    /\ UNCHANGED << wordPool, invalidStore, validStore, validAnswers, attempt,
                    grid, solution, maxAttempts, lettersCount, rejected, initialState >>

fallbackWord_Last(answers) == answers[Len(answers)]

\* line 324: validAnswers[0]
fallbackWord(answers) == answers[1]

\* lines 319-324, 330: no candidate, the first accepted word is typed again
GuessFallback ==
    /\ pc = "Guessing"
    /\ attempt < maxAttempts
    /\ WithinExcluded(GuessState)
    /\ findNextCandidate(wordPool, GuessState, validAnswers) = Null
    /\ Len(validAnswers) > 0
    /\ word' = fallbackWord(validAnswers)
    /\ gameState' = GuessState
    /\ pc' = "FeedbackPending"
    /\ UNCHANGED << wordPool, invalidStore, validStore, validAnswers, attempt,
                    grid, solution, maxAttempts, lettersCount, rejected, initialState >>

\* lines 319-328, 351-357: no candidate and no accepted word, the loop is left
GuessExhausted ==
    /\ pc = "Guessing"
    /\ attempt < maxAttempts
    /\ WithinExcluded(GuessState)
    /\ findNextCandidate(wordPool, GuessState, validAnswers) = Null
    /\ Len(validAnswers) = 0
    /\ gameState' = GuessState
    /\ validStore' = AfterLoop(validStore, grid, maxAttempts, solution)
    /\ pc' = "Exhausted"
    /\ UNCHANGED << wordPool, invalidStore, validAnswers, attempt, word,
                    grid, solution, maxAttempts, lettersCount, rejected, initialState >>

\* lines 332-338: waitForWordValidation resolves false
Rejected ==
    /\ pc = "FeedbackPending"
    /\ invalidStore' = addInvalidWord(invalidStore, word)
    /\ wordPool' = Splice1(wordPool, IndexOf(wordPool, word))
    /\ rejected' = rejected \cup {word}
    /\ pc' = "Guessing"
    /\ UNCHANGED << validStore, validAnswers, gameState, attempt, word,
                    grid, solution, maxAttempts, lettersCount, initialState >>

\* lines 340-346, 351-357: the word is accepted and wins
AcceptedWon ==
    /\ pc = "FeedbackPending"
    /\ LET rows == Append(grid, getRowData(word, solution)) IN
        /\ isGameWon(rows)
        /\ grid' = rows
        /\ validStore' = AfterLoop(addValidWord(validStore, word), rows, maxAttempts, solution)
    /\ validAnswers' = Append(validAnswers, word)
    /\ pc' = "Won"
    /\ UNCHANGED << wordPool, invalidStore, gameState, attempt, word,
                    solution, maxAttempts, lettersCount, rejected, initialState >>

AcceptedContinue_NoPush ==
    /\ pc = "FeedbackPending"
    /\ LET rows == Append(grid, getRowData(word, solution)) IN
        /\ ~isGameWon(rows)
        /\ grid' = rows
    /\ attempt + 1 < maxAttempts
    /\ attempt' = attempt + 1
    /\ pc' = "Guessing"
    /\ UNCHANGED << wordPool, invalidStore, validStore, validAnswers, gameState, word,
                    solution, maxAttempts, lettersCount, rejected, initialState >>

\* lines 340-348, 311: the word is accepted without winning, attempts remain
AcceptedContinue ==
    /\ pc = "FeedbackPending"
    /\ LET rows == Append(grid, getRowData(word, solution)) IN
        /\ ~isGameWon(rows)
        /\ grid' = rows
    /\ attempt + 1 < maxAttempts
    /\ validAnswers' = Append(validAnswers, word)
    /\ attempt' = attempt + 1
    /\ pc' = "Guessing"
    /\ UNCHANGED << wordPool, invalidStore, validStore, gameState, word,
                    solution, maxAttempts, lettersCount, rejected, initialState >>

\* lines 340-348, 311, 351-357: the word is accepted without winning on the last row
AcceptedLast ==
    /\ pc = "FeedbackPending"
    /\ LET rows == Append(grid, getRowData(word, solution)) IN
        /\ ~isGameWon(rows)
        /\ grid' = rows
        /\ validStore' = AfterLoop(validStore, rows, maxAttempts, solution)
    /\ ~(attempt + 1 < maxAttempts)
    /\ validAnswers' = Append(validAnswers, word)
    /\ attempt' = attempt + 1
    /\ pc' = "Lost"
    /\ UNCHANGED << wordPool, invalidStore, gameState, word,
                    solution, maxAttempts, lettersCount, rejected, initialState >>

Next ==
    \/ GuessCandidate
    \/ GuessFallback
    \/ GuessExhausted
    \/ Rejected
    \/ AcceptedWon
    \/ AcceptedContinue
    \/ AcceptedLast

Spec == Init /\ [][Next]_vars

\* the loop is a single thread of awaited timers: a step that can be taken is taken
FairSpec == Init /\ [][Next]_vars /\ WF_vars(Next)

-----------------------------------------------------------------------------
(* The attempt loop over a third letter and a longer board: the word list   *)
(* holds plain words only and both stores start empty                       *)

\* the largest number of rows of the board in this specification
MaxRows == 3

\* the words of n letters over the three letters
WideWords(n) == [ 1 .. n -> {"a", "b", "c"} ]

WideLists(n) == UNION { [ 1 .. k -> WideWords(n) ] : k \in 0 .. MaxRaw }

InitWide ==
    \E n \in BoardWidths :
    \E text \in WideLists(n), sol \in WideWords(n) :
    \E m \in 1 .. MaxRows, revealed \in SUBSET (0 .. (n - 1)) :
        /\ pc = "Guessing"
        /\ lettersCount = n
        /\ maxAttempts = m
        /\ solution = sol
        /\ validStore = << >>
        /\ invalidStore = << >>
        /\ wordPool = BuildPool(fetchFrenchWordList(text, << >>), n, << >>)
        /\ validAnswers = << >>
        /\ gameState = initializeGameStateFromGrid(FirstRowTexts(sol, revealed))
        /\ attempt = 0
        /\ word = Null
        /\ grid = << >>
        /\ rejected = {}
        /\ initialState = gameState

SpecWide == InitWide /\ [][Next]_vars

-----------------------------------------------------------------------------
(* The updater on its own: any first row, any feedback rows *)

\* the statuses getRowData gives, and one it never gives
Statuses == {"wellPlaced", "misplaced", "absent", "unknown"}

\* the letters of the rows and corpora of this specification
EngineAlphabet == {"a", "b", "c"}

FeedbackRows(n) == [ 1 .. n -> [ letter : EngineAlphabet, status : Statuses ] ]

FirstRows(n) == [ 1 .. n -> EngineAlphabet \cup {"."} ]

\* the corpora handed to the selector: up to MaxRaw distinct words of n letters
Corpora(n) ==
    { c \in UNION { [ 1 .. k -> [ 1 .. n -> EngineAlphabet ] ] : k \in 0 .. MaxRaw } :
        \A i, j \in DOMAIN c : c[i] = c[j] => i = j }

\* the histories handed to the selector with corpus c: none, or one of its words
Histories(c) == { << >> } \cup { << c[k] >> : k \in DOMAIN c }

InitUpdater ==
    \E n \in BoardWidths : \E firstRow \in FirstRows(n) :
        /\ pc = "Updating"
        /\ lettersCount = n
        /\ gameState = initializeGameStateFromGrid(firstRow)
        /\ attempt = 0
        /\ grid = << >>
        /\ wordPool = << >>
        /\ validAnswers = << >>
        /\ word = Null
        /\ invalidStore = << >>
        /\ validStore = << >>
        /\ solution = Null
        /\ maxAttempts = MaxUpdates
        /\ rejected = {}
        /\ initialState = Null

\* updateGameState on any row; grid keeps the row applied last, attempt counts the rows
ApplyFeedback ==
    /\ pc = "Updating"
    /\ attempt < MaxUpdates
    /\ \E row \in FeedbackRows(lettersCount) :
        /\ gameState' = updateGameState(gameState, row)
        /\ grid' = << row >>
    /\ attempt' = attempt + 1
    /\ UNCHANGED << pc, wordPool, invalidStore, validStore, validAnswers, word,
                    solution, maxAttempts, lettersCount, rejected, initialState >>

NextUpdater == ApplyFeedback

SpecUpdater == InitUpdater /\ [][NextUpdater]_vars

-----------------------------------------------------------------------------
(* The selector on its own: a corpus and a history are drawn, the constraint *)
(* state is that of a first row, or of a first row and one feedback row      *)

InitSelector ==
    \E n \in BoardWidths : \E firstRow \in FirstRows(n), c \in Corpora(n) :
    \E h \in Histories(c) :
        /\ pc = "Selecting"
        /\ lettersCount = n
        /\ gameState = initializeGameStateFromGrid(firstRow)
        /\ attempt = 0
        /\ grid = << >>
        /\ wordPool = c
        /\ validAnswers = h
        /\ word = Null
        /\ invalidStore = << >>
        /\ validStore = << >>
        /\ solution = Null
        /\ maxAttempts = 1
        /\ rejected = {}
        /\ initialState = Null

\* updateGameState on any row, once
SelectorFeedback ==
    /\ pc = "Selecting"
    /\ attempt < maxAttempts
    /\ \E row \in FeedbackRows(lettersCount) :
        gameState' = updateGameState(gameState, row)
    /\ attempt' = attempt + 1
    /\ UNCHANGED << pc, wordPool, invalidStore, validStore, validAnswers, word,
                    grid, solution, maxAttempts, lettersCount, rejected, initialState >>

\* findNextCandidate on the corpus and history drawn
SelectCandidate ==
    /\ pc = "Selecting"
    /\ word' = findNextCandidate(wordPool, gameState, validAnswers)
    /\ pc' = "Selected"
    /\ UNCHANGED << wordPool, invalidStore, validStore, validAnswers, gameState,
                    attempt, grid, solution, maxAttempts, lettersCount, rejected, initialState >>

NextSelector == SelectorFeedback \/ SelectCandidate

SpecSelector == InitSelector /\ [][NextSelector]_vars

-----------------------------------------------------------------------------
(* The updater behind a truthful board: a hidden word of three letters, a   *)
(* preset first row taken from it, and the rows the board gives for guesses *)

\* the board widths of this specification
PlayWidths == {3}

\* the hidden words and the guesses: the words of n letters over the three letters
PlayWords(n) == [ 1 .. n -> EngineAlphabet ]

InitBoard ==
    \E n \in PlayWidths : \E sol \in PlayWords(n), revealed \in SUBSET (0 .. (n - 1)) :
        /\ pc = "Playing"
        /\ lettersCount = n
        /\ solution = sol
        /\ gameState = initializeGameStateFromGrid(FirstRowTexts(sol, revealed))
        /\ attempt = 0
        /\ grid = << >>
        /\ wordPool = << >>
        /\ validAnswers = << >>
        /\ word = Null
        /\ invalidStore = << >>
        /\ validStore = << >>
        /\ maxAttempts = MaxUpdates
        /\ rejected = {}
        /\ initialState = Null

\* lines 313-315: a guess is accepted, its row is read and folded in; grid
\* keeps the row applied last, attempt counts the rows
Play ==
    /\ pc = "Playing"
    /\ attempt < MaxUpdates
    /\ \E guess \in PlayWords(lettersCount) :
        /\ word' = guess
        /\ grid' = << getRowData(guess, solution) >>
        /\ gameState' = updateGameState(gameState, getRowData(guess, solution))
    /\ attempt' = attempt + 1
    /\ UNCHANGED << pc, wordPool, invalidStore, validStore, validAnswers,
                    solution, maxAttempts, lettersCount, rejected, initialState >>

NextBoard == Play

SpecBoard == InitBoard /\ [][NextBoard]_vars

-----------------------------------------------------------------------------
(* Properties of the updater (SpecUpdater) *)

\* C1: after any sequence of updateGameState calls on the state built by
\* initializeGameStateFromGrid, whatever the rows, no letter is both in absent
\* and in misplaced, and no letter of absent is a value of wellPlaced.
C1_AbsentDisjoint ==
    /\ gameState.absent \cap gameState.misplaced = {}
    /\ \A p \in DOMAIN gameState.wellPlaced : gameState.wellPlaced[p] \notin gameState.absent

\* two rows were applied and all three collections are populated
C1_Witness ==
    /\ attempt >= 2
    /\ gameState.absent # {}
    /\ gameState.misplaced # {}
    /\ DOMAIN gameState.wellPlaced # {}

\* row reports letter l positive at one position and absent at another
PositiveAndAbsent(row, l) ==
    \E i, j \in DOMAIN row :
        /\ i # j
        /\ row[i].letter = l /\ row[i].status \in {"wellPlaced", "misplaced"}
        /\ row[j].letter = l /\ row[j].status = "absent"

\* C4: a letter that the row just applied reports positive (wellPlaced or
\* misplaced) at one position and absent at another is not in absent
\* afterwards, whichever of the two positions comes first in the row.
C4_MixedLetterNotAbsent ==
    \A k \in DOMAIN grid : \A l \in EngineAlphabet :
        PositiveAndAbsent(grid[k], l) => l \notin gameState.absent

\* the row applied last reports a letter absent first and wellPlaced after,
\* a letter the state did not know before the row
C4_Witness ==
    /\ attempt = 1
    /\ grid # << >>
    /\ grid[1][1].status = "absent"
    /\ grid[1][2].status = "wellPlaced"
    /\ grid[1][1].letter = grid[1][2].letter
    /\ gameState.wellPlaced = [ p \in {1} |-> grid[1][2].letter ]

\* C14: an updateGameState call removes nothing from misplaced, keeps every
\* excludedPositions list as a prefix of the new one, and removes a letter
\* from absent only if the row applied reports that letter wellPlaced or
\* misplaced.
C14_CollectionsGrow ==
    [][ /\ gameState.misplaced \subseteq gameState'.misplaced
        /\ \A l \in DOMAIN gameState.excludedPositions :
              /\ l \in DOMAIN gameState'.excludedPositions
              /\ Len(gameState.excludedPositions[l]) <= Len(gameState'.excludedPositions[l])
              /\ \A k \in DOMAIN gameState.excludedPositions[l] :
                    gameState'.excludedPositions[l][k] = gameState.excludedPositions[l][k]
        /\ \A l \in gameState.absent \ gameState'.absent :
              \E k \in DOMAIN grid'[1] :
                  /\ grid'[1][k].letter = l
                  /\ grid'[1][k].status \in {"wellPlaced", "misplaced"} ]_vars

\* a second call grew an excludedPositions list the first call had started,
\* while a letter is absent and another is well placed
C14_Witness ==
    /\ attempt = 2
    /\ \E l \in DOMAIN gameState.excludedPositions :
          gameState.excludedPositions[l] = << 0, 0 >>
    /\ gameState.absent # {}
    /\ \E k \in DOMAIN grid[1] : grid[1][k].status = "wellPlaced"

\* row carries wellPlaced feedback and nothing else: each entry is wellPlaced
\* or has a status the switch does not handle
OnlyWellPlaced(row) ==
    /\ \E k \in DOMAIN row : row[k].status = "wellPlaced"
    /\ \A k \in DOMAIN row : row[k].status \in {"wellPlaced", "unknown"}

AsAbsent(row) ==
    [ k \in DOMAIN row |->
        IF row[k].status \in {"wellPlaced", "misplaced", "absent"}
        THEN row[k]
        ELSE [ letter |-> row[k].letter, status |-> "absent" ] ]

-----------------------------------------------------------------------------
(* Properties of the selector (SpecSelector) *)

\* the four filter conditions, for word w under constraint state gs and history h
SatisfiesFilter(w, gs, h) ==
    /\ \A p \in DOMAIN gs.wellPlaced : p < Len(w) /\ w[p + 1] = gs.wellPlaced[p]
    /\ \A l \in gs.misplaced :
          /\ \E k \in DOMAIN w : w[k] = l
          /\ l \in DOMAIN gs.excludedPositions =>
                \A e \in DOMAIN gs.excludedPositions[l] :
                    LET pos == gs.excludedPositions[l][e]
                    IN  ~(pos < Len(w) /\ w[pos + 1] = l)
    /\ \A l \in gs.absent : \A k \in DOMAIN w : w[k] # l
    /\ \A k \in DOMAIN h : h[k] # w

\* C2: findNextCandidate returns a word only if it is in the corpus and
\* satisfies the four conditions, and returns null exactly when no word of
\* the corpus satisfies them.
C2_SelectorCorrect ==
    pc = "Selected" =>
        /\ word # Null =>
              /\ \E k \in DOMAIN wordPool : wordPool[k] = word
              /\ SatisfiesFilter(word, gameState, validAnswers)
        /\ word = Null <=>
              \A k \in DOMAIN wordPool : ~SatisfiesFilter(wordPool[k], gameState, validAnswers)

\* a word was returned under a state with all three kinds of constraint and a
\* history that rules a corpus word out
C2_Witness ==
    /\ pc = "Selected"
    /\ word # Null
    /\ gameState.misplaced # {}
    /\ gameState.absent # {}
    /\ DOMAIN gameState.wellPlaced # {}
    /\ validAnswers # << >>

\* C3: when several corpus words satisfy the four conditions, the word
\* returned is the first of them in the corpus order.
C3_FirstMatchWins ==
    (pc = "Selected" /\ word # Null) =>
        \E j \in DOMAIN wordPool :
            /\ wordPool[j] = word
            /\ \A k \in 1 .. (j - 1) :
                  ~SatisfiesFilter(wordPool[k], gameState, validAnswers)

\* two corpus words satisfy the conditions under a state with constraints
C3_Witness ==
    /\ pc = "Selected"
    /\ word # Null
    /\ gameState.absent # {}
    /\ \E j, k \in DOMAIN wordPool :
          /\ j # k
          /\ SatisfiesFilter(wordPool[j], gameState, validAnswers)
          /\ SatisfiesFilter(wordPool[k], gameState, validAnswers)

-----------------------------------------------------------------------------
(* Properties of the attempt loop (Spec, FairSpec) *)

\* a step in which the board answers a submitted word without taking it as a row
BoardRejects == pc = "FeedbackPending" /\ pc' # pc /\ grid' = grid

\* C5: when the board rejects the submitted word, the word is in the
\* invalid-word blocklist and not in the corpus afterwards, the attempt
\* counter and the history are unchanged, and the loop is back in Guessing.
C5_RejectionEffect ==
    [][ BoardRejects =>
          /\ Includes(invalidStore', word)
          /\ ~Includes(wordPool', word)
          /\ attempt' = attempt
          /\ validAnswers' = validAnswers
          /\ pc' = "Guessing" ]_vars

\* a word was rejected after another had been accepted, and words remain
C5_Witness ==
    /\ pc = "Guessing"
    /\ word \in rejected
    /\ validAnswers # << >>
    /\ wordPool # << >>
    /\ ~Includes(validAnswers, word)

\* C6: a word the board rejected during the session is never submitted
\* again, neither as a selector candidate nor as the fallback word.
C6_RejectedNeverResubmitted == pc = "FeedbackPending" => word \notin rejected

\* C7: the corpus changes only by the removal of the word the board has just
\* rejected: no other word leaves it and none is added.
C7_OnlyRejectedWordLeaves ==
    [][ wordPool' # wordPool =>
          /\ BoardRejects
          /\ wordPool' = SelectSeq(wordPool, LAMBDA w : w # word) ]_vars

\* C8: every session eventually reaches Won, Lost or Exhausted (or the point
\* where this model stops exploring it).
C8_Terminates == <>(pc \in Terminal \/ Truncated)

\* C9: in every state of the session the corpus words have the board's
\* length, the corpus has no duplicates, and no corpus word is in the stored
\* invalid-word blocklist.
C9_CorpusInvariant ==
    /\ \A k \in DOMAIN wordPool : Len(wordPool[k]) = lettersCount
    /\ \A j, k \in DOMAIN wordPool : wordPool[j] = wordPool[k] => j = k
    /\ \A k \in DOMAIN wordPool : \A i \in DOMAIN invalidStore : invalidStore[i] # wordPool[k]

\* a rejection grew a blocklist that was not empty, and words remain
C9_Witness ==
    /\ rejected # {}
    /\ Len(invalidStore) >= 2
    /\ Len(wordPool) >= 1

\* C10: when the selector returns null while the history is empty, the
\* session ends Exhausted in that step: no word is submitted, the board gets
\* no row, and neither store changes.
C10_ExhaustedRecordsNothing ==
    [][ ( /\ pc = "Guessing"
          /\ validAnswers = << >>
          /\ findNextCandidate(wordPool, gameState, validAnswers) = Null ) =>
          /\ pc' = "Exhausted"
          /\ word' = word
          /\ grid' = grid
          /\ validStore' = validStore
          /\ invalidStore' = invalidStore ]_vars

\* the session ended Exhausted with an empty history, after rejections had
\* emptied what the selector could choose from
C10_Witness ==
    /\ pc = "Exhausted"
    /\ validAnswers = << >>
    /\ rejected # {}
    /\ grid = << >>

\* C12: once an accepted guess wins, the session is over: no further step is
\* taken, the winning word is in the stored valid words, and the store holds
\* nothing else that it did not hold before (the store changes in no step
\* other than the one that ends the session).
C12_WonIsTerminal ==
    [][ /\ pc # "Won"
        /\ validStore' # validStore => pc' \in Terminal
        /\ pc' = "Won" =>
              /\ isGameWon(grid')
              /\ validAnswers' = Append(validAnswers, word)
              /\ \E k \in DOMAIN validStore' : validStore'[k] = word
              /\ \A k \in DOMAIN validStore' :
                    \/ validStore'[k] = word
                    \/ \E j \in DOMAIN validStore : validStore[j] = validStore'[k] ]_vars

\* the second accepted guess won after a rejection, and the winning word was
\* added to a store that held another word
C12_Witness ==
    /\ pc = "Won"
    /\ Len(validAnswers) = 2
    /\ rejected # {}
    /\ Len(validStore) = 2
    /\ validStore[2] = word

\* C13: the session is Lost exactly when the attempt counter has reached the
\* board's number of rows without a win; the board never holds more accepted
\* guesses than it has rows, and in Lost the solution is in the stored valid
\* words.
C13_LostAtMaxAttempts ==
    /\ Len(validAnswers) <= maxAttempts
    /\ Len(grid) = Len(validAnswers)
    /\ pc = "Lost" <=> (attempt = maxAttempts /\ ~isGameWon(grid))
    /\ pc = "Lost" =>
          /\ Len(grid) = maxAttempts
          /\ \E k \in DOMAIN validStore : validStore[k] = solution

\* the session was lost on a board of two rows, after a rejection, and the
\* solution was added to a store that held another word
C13_Witness ==
    /\ pc = "Lost"
    /\ maxAttempts = 2
    /\ rejected # {}
    /\ Len(validStore) = 2
    /\ validStore[2] = solution

-----------------------------------------------------------------------------
(* Properties of the attempt loop over three letters (SpecWide) *)

\* C11: when the selector returns null while the history is not empty, the
\* word submitted next is the earliest history entry, validAnswers[0]; and a
\* word of the history is submitted only in that case.
C11_FallbackIsEarliest ==
    [][ /\ ( /\ pc = "Guessing"
             /\ validAnswers # << >>
             /\ findNextCandidate(wordPool, GuessState, validAnswers) = Null ) =>
             /\ pc' = "FeedbackPending"
             /\ word' = validAnswers[1]
        /\ ( /\ pc = "Guessing"
             /\ pc' = "FeedbackPending"
             /\ \E k \in DOMAIN validAnswers : validAnswers[k] = word' ) =>
             findNextCandidate(wordPool, GuessState, validAnswers) = Null ]_vars

\* the fallback word was typed while the history held two different words
C11_Witness ==
    /\ pc = "FeedbackPending"
    /\ Len(validAnswers) = 2
    /\ validAnswers[1] # validAnswers[2]
    /\ word = validAnswers[1]
    /\ findNextCandidate(wordPool, gameState, validAnswers) = Null

\* C15: no step of the session removes an entry of wellPlaced or changes the
\* letter it holds, whether the entry came from the preset first row or from
\* feedback.
C15_WellPlacedStays ==
    [][ \A p \in DOMAIN gameState.wellPlaced :
            /\ p \in DOMAIN gameState'.wellPlaced
            /\ gameState'.wellPlaced[p] = gameState.wellPlaced[p] ]_vars

\* a position fixed by the feedback of the first row was confirmed by the
\* second row, next to a letter known absent
C15_Witness ==
    /\ pc = "FeedbackPending"
    /\ attempt = 2
    /\ gameState.absent # {}
    /\ \E p \in DOMAIN gameState.wellPlaced :
          /\ grid[1][p + 1].status = "wellPlaced"
          /\ grid[2][p + 1].status = "wellPlaced"
          /\ grid[1][p + 1].letter = gameState.wellPlaced[p]

\* a step in which the board takes the submitted word as a row that does not win
AcceptedNoWin == pc = "FeedbackPending" /\ grid' # grid /\ ~isGameWon(grid')

\* C18: an accepted guess that does not win is appended to the history and
\* raises attempt by one; when the loop goes on, nothing else changes; and
\* whenever the loop is in Guessing, attempt is the length of the history
\* and is below maxAttempts.
C18_AcceptedContinueEffect ==
    /\ [](pc = "Guessing" => (attempt = Len(validAnswers) /\ attempt < maxAttempts))
    /\ [][ AcceptedNoWin =>
            /\ validAnswers' = Append(validAnswers, word)
            /\ attempt' = attempt + 1
            /\ pc' \in {"Guessing", "Lost"}
            /\ pc' = "Guessing" =>
                  /\ attempt' < maxAttempts
                  /\ UNCHANGED << wordPool, invalidStore, validStore, gameState, word,
                                  solution, maxAttempts, lettersCount, initialState >> ]_vars

\* the loop is in Guessing for the third attempt, the second accepted guess
\* having been the fallback word, after a rejection
C18_Witness ==
    /\ pc = "Guessing"
    /\ attempt = 2
    /\ validAnswers[1] = validAnswers[2]
    /\ rejected # {}

\* updateGameState applied to gs for each of the first n rows, once, in order
RECURSIVE ApplyRows(_, _, _)
ApplyRows(gs, rows, n) ==
    IF n = 0 THEN gs ELSE updateGameState(ApplyRows(gs, rows, n - 1), rows[n])

\* the same constraints: wellPlaced, misplaced and absent equal, and each
\* letter's excluded positions equal as sets
SameConstraints(g1, g2) ==
    /\ g1.wellPlaced = g2.wellPlaced
    /\ g1.misplaced = g2.misplaced
    /\ g1.absent = g2.absent
    /\ DOMAIN g1.excludedPositions = DOMAIN g2.excludedPositions
    /\ \A l \in DOMAIN g1.excludedPositions :
          { g1.excludedPositions[l][k] : k \in DOMAIN g1.excludedPositions[l] }
              = { g2.excludedPositions[l][k] : k \in DOMAIN g2.excludedPositions[l] }

\* the constraint state the selection of this iteration uses, or has used
SelectionState == IF pc = "Guessing" THEN GuessState ELSE gameState

\* C20: the constraint state a selection uses has the constraints of the
\* initial state with the accepted rows 0 .. attempt-1 applied once each, in
\* order, however many rejections there were; and the selector accepts
\* the same corpus words, and returns the same word, under the two.
C20_StateIsFoldOfRows ==
    pc \in {"Guessing", "FeedbackPending"} =>
        LET once == ApplyRows(initialState, grid, attempt) IN
        /\ SameConstraints(SelectionState, once)
        /\ \A k \in DOMAIN wordPool :
              Matches(wordPool[k], SelectionState, validAnswers)
                  <=> Matches(wordPool[k], once, validAnswers)
        /\ findNextCandidate(wordPool, SelectionState, validAnswers)
              = findNextCandidate(wordPool, once, validAnswers)

\* the fallback word is typed after it was rejected on the third attempt:
\* the second row, which differs from the first, was applied twice and left
\* a position twice in an excludedPositions list
C20_Witness ==
    /\ pc = "FeedbackPending"
    /\ attempt = 2
    /\ grid[1] # grid[2]
    /\ word \in rejected
    /\ \E l \in DOMAIN gameState.excludedPositions :
          /\ Len(gameState.excludedPositions[l]) >= 2
          /\ gameState.excludedPositions[l][1] = gameState.excludedPositions[l][2]

-----------------------------------------------------------------------------
(* Properties of the updater behind a truthful board (SpecBoard) *)

\* C19: under truthful feedback for the hidden word, the hidden word
\* satisfies filter conditions 1 to 3 in every constraint state, and the
\* selector returns a word for a corpus that holds the hidden word (alone,
\* or behind the last guess) and a history that does not (the hidden word
\* itself when the history holds the last guess).
C19_SolutionStaysCandidate ==
    /\ SatisfiesFilter(solution, gameState, << >>)
    /\ findNextCandidate(<< solution >>, gameState, << >>) # Null
    /\ \A w \in {word} \ {solution, Null} :
          /\ findNextCandidate(<< w, solution >>, gameState, << >>) # Null
          /\ findNextCandidate(<< w, solution >>, gameState, << w >>) = solution

\* two rows were applied, the last for a guess with a repeated letter that
\* the hidden word holds once, elsewhere, and all three collections are populated
C19_Witness ==
    /\ pc = "Playing"
    /\ attempt = 2
    /\ \E i, j \in DOMAIN word :
          /\ i < j
          /\ word[i] = word[j]
          /\ grid[1][i].status = "misplaced"
          /\ grid[1][j].status = "absent"
    /\ gameState.absent # {}
    /\ DOMAIN gameState.wellPlaced # {}

=============================================================================
